---- MODULE Spec2Model ----
(***************************************************************************)
(* Companion extension: activation glue (extension.ts).                    *)
(*                                                                         *)
(* The module models the panel lifecycle commands (openCompanionPanel,     *)
(* companion.openPanel, companion.togglePanel) and the URI handler         *)
(* (handleUri) as interleaved async functions on one event loop: every     *)
(* action is the code an async function runs between two suspension        *)
(* points (await), and the host may run any other queued event at a        *)
(* suspension point.                                                       *)
(*                                                                         *)
(* WebviewProvider (the instance registry) and Controller (the auth state  *)
(* validator) are imported by extension.ts; their bodies are modelled      *)
(* from the specification's sections 3, 4.1 and 4.3.                       *)
(***************************************************************************)
EXTENDS Integers, Sequences, FiniteSets, TLC

\* ---------------------------------------------------------------- bounds
MaxInst  == 4   \* panel instances ever created (identities 1..MaxInst)
MaxCmds  == 1   \* command invocations next to URI invocations (Spec)
MaxPanelCmds == 3   \* command invocations when only panel commands run
MaxCb    == 2   \* external URI invocations
MaxNonce == 1   \* auth state values ever issued
MaxStartupCb == 1   \* URI invocations when no command and no close occurs
MaxTextLen == 3   \* code points of a virtual document's text
MaxReads == 2   \* consecutive requests for the same virtual document

\* ------------------------------------------------------ parameter values
\* URLSearchParams.get: null for an absent parameter, "" for an empty one;
\* every non-empty string is a positive number here.
NULL  == -1
EMPTY == 0
\* JavaScript truthiness of a string-or-null value: `if (code)`, `token && apiKey`.
Truthy(v) == v > 0

NoInst == 0
InstIds == 1..MaxInst
CbIds == 1..MaxCb
\* 0 is the openCompanionPanel() call of activate
CmdIds == 0..(IF MaxCmds > MaxPanelCmds THEN MaxCmds ELSE MaxPanelCmds)
StartupCmd == 0

\* The state values controllers issue, and one that none ever issues.
Nonces == 1..MaxNonce
Forged == MaxNonce + 1
StateVals == {NULL, EMPTY, Forged} \cup Nonces
\* (token, apiKey) pairs: both present, or one of them absent or empty.
\* 1 stands for a token "t", 2 for an apiKey "k", 3 (below) for a code.
Complete == {<<1, 2>>}
Incomplete == {<<NULL, 2>>, <<1, EMPTY>>}

\* The callback requests the host may deliver: uri.path and the parsed query.
\* Parameters a route never reads are left out (NULL), except `state` on
\* /openrouter, which the route must ignore.
AuthRequest(state, creds) ==
    [path |-> "/auth", token |-> creds[1], state |-> state,
     apiKey |-> creds[2], code |-> NULL]
AuthRequests ==
    {AuthRequest(s, c) : s \in StateVals, c \in Complete}
    \cup {AuthRequest(1, c) : c \in Incomplete}
OpenRouterRequest(code, state) ==
    [path |-> "/openrouter", token |-> NULL, state |-> state,
     apiKey |-> NULL, code |-> code]
OpenRouterRequests ==
    {OpenRouterRequest(3, NULL), OpenRouterRequest(3, 1),
     OpenRouterRequest(EMPTY, 1), OpenRouterRequest(NULL, NULL)}
OtherRequests ==
    {[path |-> "/other", token |-> 1, state |-> 1, apiKey |-> 2, code |-> 3]}
Requests == AuthRequests \cup OpenRouterRequests \cup OtherRequests
NoRequest == [path |-> "", token |-> NULL, state |-> NULL, apiKey |-> NULL, code |-> NULL]

VARIABLES
    activated,   \* activate() has run
    live,        \* WebviewProvider registry: the live (registered) instances
    entries,     \* the registry's ordered collection: one entry per registration
    visible,     \* the registry's visible pointer, NoInst when none
    nextInst,    \* next fresh instance identity
    closing,     \* instances whose disposal closeAllTabInstances has requested
    authNonce,   \* per controller: the recorded auth state, NULL when none
    nextNonce,   \* next fresh auth state value
    cmd,         \* per command invocation: the async function's position
    nextCmd,     \* next command invocation id
    cb,          \* per URI invocation: handleUri's locals, position and effects
    nextCb,      \* next URI invocation id
    doc          \* the last virtual-document request and the content served

vars == <<activated, live, entries, visible, nextInst, closing, authNonce,
          nextNonce, cmd, nextCmd, cb, nextCb, doc>>

\* ------------------------------------------------------------ registry
\* WebviewProvider.getVisibleInstance()
getVisibleInstance == visible

\* WebviewProvider.getTabInstances()
getTabInstances == live

\* Instance Registry unregister(instance): removes it; if it was the visible
\* one, clears the visible pointer.
unregisterVisible(i) == IF visible = i THEN NoInst ELSE visible

\* Instance Registry register(instance): adds the newly created instance.
register(i) == Append(entries, i)

\* Instance Registry unregister(instance): its entry is removed.
unregisterEntry(i) == SelectSeq(entries, LAMBDA e : e # i)

\* WebviewProvider.closeAllTabInstances(): requests the disposal of every
\* instance live at the call; each disposal settles later (Dispose).
closeAllTabInstances == closing \cup getTabInstances

\* ------------------------------------------------------------ commands
IdleCmd == [kind |-> "none", pc |-> "idle", startCard |-> 0, inst |-> NoInst,
            lock |-> "none"]

\* An openCompanionPanel that registers the provider it created a second time.
OpenSync_RegisterTwice(k, kind, closeFirst) ==
    /\ nextInst <= MaxInst
    /\ live' = live \cup {nextInst}
    /\ entries' = Append(register(nextInst), nextInst)
    /\ visible' = nextInst
    /\ nextInst' = nextInst + 1
    /\ closing' = IF closeFirst THEN closeAllTabInstances ELSE closing
    /\ cmd' = [cmd EXCEPT ![k] = [kind |-> kind, pc |-> "delay",
                                  startCard |-> Cardinality(getTabInstances),
                                  inst |-> nextInst,
                                  lock |-> "none"]]

\* openCompanionPanel, lines 50-68: createWebviewPanel, new WebviewProvider,
\* resolveWebviewView up to its suspension. The panel is created in the
\* foreground, so the new instance is the visible one.
OpenSync(k, kind, closeFirst) ==
    /\ nextInst <= MaxInst
    /\ live' = live \cup {nextInst}
    /\ entries' = register(nextInst)
    /\ visible' = nextInst
    /\ nextInst' = nextInst + 1
    /\ closing' = IF closeFirst THEN closeAllTabInstances ELSE closing
    /\ cmd' = [cmd EXCEPT ![k] = [kind |-> kind, pc |-> "delay",
                                  startCard |-> Cardinality(getTabInstances),
                                  inst |-> nextInst,
                                  lock |-> "none"]]

\* An activate() that lacks the openCompanionPanel() call.
Activate_NoOpen ==
    /\ ~activated
    /\ activated' = TRUE
    /\ UNCHANGED <<live, entries, visible, nextInst, closing, cmd, authNonce,
                   nextNonce, nextCmd, cb, nextCb, doc>>

\* activate(): the registrations and the unawaited openCompanionPanel() call.
Activate ==
    /\ ~activated
    /\ activated' = TRUE
    /\ OpenSync(StartupCmd, "startup", FALSE)
    /\ UNCHANGED <<authNonce, nextNonce, nextCmd, cb, nextCb, doc>>

\* companion.openPanel: closeAllTabInstances() is called without being awaited,
\* then openCompanionPanel() is awaited.
OpenPanel ==
    /\ activated
    /\ nextCmd \in CmdIds
    /\ OpenSync(nextCmd, "openPanel", TRUE)
    /\ nextCmd' = nextCmd + 1
    /\ UNCHANGED <<activated, authNonce, nextNonce, cb, nextCb, doc>>

\* companion.togglePanel, the branch tabInstances.length > 0: the handler calls
\* closeAllTabInstances() without awaiting it and returns.
ToggleClose(k) ==
    /\ getTabInstances # {}
    /\ closing' = closeAllTabInstances
    /\ cmd' = [cmd EXCEPT ![k] = [kind |-> "togglePanel", pc |-> "done",
                                  startCard |-> Cardinality(getTabInstances),
                                  inst |-> NoInst,
                                  lock |-> "none"]]
    /\ UNCHANGED <<live, entries, visible, nextInst>>

\* companion.togglePanel, the else branch: await openCompanionPanel().
ToggleOpen(k) ==
    /\ getTabInstances = {}
    /\ OpenSync(k, "togglePanel", FALSE)

\* companion.togglePanel
TogglePanel ==
    /\ activated
    /\ nextCmd \in CmdIds
    /\ (ToggleClose(nextCmd) \/ ToggleOpen(nextCmd))
    /\ nextCmd' = nextCmd + 1
    /\ UNCHANGED <<activated, authNonce, nextNonce, cb, nextCb, doc>>

\* The two commands, at most MaxCmds invocations of them.
OpenPanelCmd == nextCmd <= MaxCmds /\ OpenPanel
TogglePanelCmd == nextCmd <= MaxCmds /\ TogglePanel

\* openCompanionPanel, lines 68-72: it resumes after
\* `await panelProvider.resolveWebviewView(panel)` and again after
\* `await setTimeoutPromise(100)` (no statement separates the two suspensions),
\* then issues workbench.action.lockEditorGroup.
DelayDone(k) ==
    /\ cmd[k].pc = "delay"
    /\ cmd' = [cmd EXCEPT ![k].pc = "lock"]
    /\ UNCHANGED <<activated, live, entries, visible, nextInst, closing,
                   authNonce, nextNonce, nextCmd, cb, nextCb, doc>>

\* The lock command settles: fulfilled (the active editor group is locked,
\* whether or not the panel is still there), or rejected, which rejects
\* openCompanionPanel and its awaiting command handler.
LockDone(k) ==
    /\ cmd[k].pc = "lock"
    /\ \/ cmd' = [cmd EXCEPT ![k].pc = "done",
                             ![k].lock = IF cmd[k].inst \in live
                                         THEN "panel" ELSE "other"]
       \/ cmd' = [cmd EXCEPT ![k].pc = "failed", ![k].lock = "rejected"]
    /\ UNCHANGED <<activated, live, entries, visible, nextInst, closing,
                   authNonce, nextNonce, nextCmd, cb, nextCb, doc>>

\* Disposal of one instance: its controller's in-memory state is released and
\* the instance is unregistered.
Unregister(i) ==
    /\ live' = live \ {i}
    /\ entries' = unregisterEntry(i)
    /\ visible' = unregisterVisible(i)
    /\ closing' = closing \ {i}
    /\ authNonce' = [authNonce EXCEPT ![i] = NULL]
    /\ UNCHANGED <<activated, nextInst, nextNonce, cmd, nextCmd, cb, nextCb,
                   doc>>

\* A disposal requested by closeAllTabInstances settles.
Dispose(i) ==
    /\ i \in closing
    /\ Unregister(i)

\* The user closes a panel's tab.
UserClose(i) ==
    /\ i \in live \ closing
    /\ Unregister(i)

\* The host reports a visibility change: another live panel, or none, is now
\* in the foreground.
VisibilityChange(v) ==
    /\ activated
    /\ v \in live \cup {NoInst}
    /\ v # visible
    /\ visible' = v
    /\ UNCHANGED <<activated, live, entries, nextInst, closing, authNonce,
                   nextNonce, cmd, nextCmd, cb, nextCb, doc>>

\* ----------------------------------------------------- auth state (Controller)
\* The controller of a live instance starts an authentication flow: it
\* generates a fresh state value and records it in memory.
IssueAuthState(i) ==
    /\ i \in live
    /\ nextNonce <= MaxNonce
    /\ authNonce' = [authNonce EXCEPT ![i] = nextNonce]
    /\ nextNonce' = nextNonce + 1
    /\ UNCHANGED <<activated, live, entries, visible, nextInst, closing, cmd,
                   nextCmd, cb, nextCb, doc>>

\* Controller.validateAuthState(state): the received state against the value
\* recorded by controller i; a missing, empty or different value fails.
validateAuthState(i, state) ==
    i \in InstIds /\ Truthy(state) /\ state = authNonce[i]

\* On success the recorded state is invalidated at once (single use).
consumeAuthState(i, ok) ==
    IF ok THEN [authNonce EXCEPT ![i] = NULL] ELSE authNonce

\* ------------------------------------------------------------- handleUri
IdleCb == [pc |-> "idle", req |-> NoRequest, target |-> NoInst, ok |-> FALSE,
           calls |-> <<>>, errors |-> 0]

\* One call of a controller method made by handleUri for a callback. `registered`
\* notes whether the receiving instance was in the registry when it was called.
Call(method, i, a1, a2) ==
    [method |-> method, inst |-> i, a1 |-> a1, a2 |-> a2, registered |-> i \in live]

\* case "/openrouter", lines 148-154.
RouteOpenRouter(started, w, req) ==
    IF Truthy(req.code)
    THEN [started EXCEPT
            !.pc = "openrouter",
            !.calls = Append(@, Call("handleOpenRouterCallback", w, req.code, NULL))]
    ELSE [started EXCEPT !.pc = "done"]

\* case "/auth", lines 155-167, up to the validateAuthState call.
RouteAuth(started, w, req) ==
    [started EXCEPT
        !.pc = "validate",
        !.calls = Append(@, Call("validateAuthState", w, req.state, NULL))]

\* A handler that reaches the switch without a visible instance.
HandleUriSync_NoVisibleCheck(c, req) ==
    LET started == [cb[c] EXCEPT !.req = req, !.target = getVisibleInstance]
    IN  CASE req.path = "/openrouter" -> RouteOpenRouter(started, getVisibleInstance, req)
          [] req.path = "/auth" -> RouteAuth(started, getVisibleInstance, req)
          [] OTHER -> [started EXCEPT !.pc = "done"]

\* A handler whose /openrouter case lacks its `break` and falls into /auth.
HandleUriSync_FallThrough(c, req) ==
    LET w == getVisibleInstance
        started == [cb[c] EXCEPT !.req = req, !.target = w]
    IN  IF w = NoInst
        THEN [started EXCEPT !.pc = "done"]
        ELSE CASE req.path = "/openrouter" ->
                    RouteAuth([RouteOpenRouter(started, w, req) EXCEPT !.pc = "idle"],
                              w, req)
               [] req.path = "/auth" -> RouteAuth(started, w, req)
               [] OTHER -> [started EXCEPT !.pc = "done"]

\* A handler that treats every unrecognised route as /auth.
HandleUriSync_DefaultAuth(c, req) ==
    LET w == getVisibleInstance
        started == [cb[c] EXCEPT !.req = req, !.target = w]
    IN  IF w = NoInst
        THEN [started EXCEPT !.pc = "done"]
        ELSE CASE req.path = "/openrouter" -> RouteOpenRouter(started, w, req)
               [] OTHER -> RouteAuth(started, w, req)

\* A handler that delivers to the provider created last instead of asking the
\* registry for the visible instance.
HandleUriSync_LastOpened(c, req) ==
    LET w == nextInst - 1
        started == [cb[c] EXCEPT !.req = req, !.target = w]
    IN  IF w = NoInst
        THEN [started EXCEPT !.pc = "done"]
        ELSE CASE req.path = "/openrouter" -> RouteOpenRouter(started, w, req)
               [] req.path = "/auth" -> RouteAuth(started, w, req)
               [] OTHER -> [started EXCEPT !.pc = "done"]

\* A handler that forwards the credentials before it validates the state.
HandleUriSync_ForwardFirst(c, req) ==
    LET w == getVisibleInstance
        started == [cb[c] EXCEPT !.req = req, !.target = w]
        forwarded ==
            IF Truthy(req.token) /\ Truthy(req.apiKey)
            THEN [started EXCEPT
                    !.calls = Append(@, Call("handleAuthCallback", w,
                                             req.token, req.apiKey))]
            ELSE started
    IN  IF w = NoInst
        THEN [started EXCEPT !.pc = "done"]
        ELSE CASE req.path = "/openrouter" -> RouteOpenRouter(started, w, req)
               [] req.path = "/auth" -> RouteAuth(forwarded, w, req)
               [] OTHER -> [started EXCEPT !.pc = "done"]

\* handleUri, lines 141-167, up to its first suspension: the visible instance
\* is captured, then the route is selected.
HandleUriSync(c, req) ==
    LET visibleWebview == getVisibleInstance
        started == [cb[c] EXCEPT !.req = req, !.target = visibleWebview]
    IN  IF visibleWebview = NoInst
        THEN [started EXCEPT !.pc = "done"]
        ELSE CASE req.path = "/openrouter" -> RouteOpenRouter(started, visibleWebview, req)
               [] req.path = "/auth" -> RouteAuth(started, visibleWebview, req)
               [] OTHER -> [started EXCEPT !.pc = "done"]

\* The host invokes the registered URI handler.
HandleUri(req) ==
    /\ activated
    /\ nextCb <= MaxCb
    /\ cb' = [cb EXCEPT ![nextCb] = HandleUriSync(nextCb, req)]
    /\ nextCb' = nextCb + 1
    /\ UNCHANGED <<activated, live, entries, visible, nextInst, closing,
                   authNonce, nextNonce, cmd, nextCmd, doc>>

\* The validateAuthState call of callback c runs on the captured instance's
\* controller: it checks the state and, on success, invalidates it.
ValidateAuthState(c) ==
    /\ cb[c].pc = "validate"
    /\ LET ok == validateAuthState(cb[c].target, cb[c].req.state)
       IN  /\ authNonce' = consumeAuthState(cb[c].target, ok)
           /\ cb' = [cb EXCEPT ![c].pc = "validated", ![c].ok = ok]
    /\ UNCHANGED <<activated, live, entries, visible, nextInst, closing,
                   nextNonce, cmd, nextCmd, nextCb, doc>>

\* A forwarding step that tests `token || apiKey`.
ForwardAuth_Or(c, w) ==
    IF Truthy(cb[c].req.token) \/ Truthy(cb[c].req.apiKey)
    THEN [cb[c] EXCEPT
            !.pc = "auth",
            !.calls = Append(@, Call("handleAuthCallback", w,
                                     cb[c].req.token, cb[c].req.apiKey))]
    ELSE [cb[c] EXCEPT !.pc = "done"]

\* Lines 172-174: the credentials are forwarded to controller w.
ForwardAuth(c, w) ==
    IF Truthy(cb[c].req.token) /\ Truthy(cb[c].req.apiKey)
    THEN [cb[c] EXCEPT
            !.pc = "auth",
            !.calls = Append(@, Call("handleAuthCallback", w,
                                     cb[c].req.token, cb[c].req.apiKey))]
    ELSE [cb[c] EXCEPT !.pc = "done"]

\* A handler whose test of the validation result lacks the negation.
AuthResumeSync_Inverted(c) ==
    IF cb[c].ok
    THEN [cb[c] EXCEPT !.pc = "done", !.errors = @ + 1]
    ELSE ForwardAuth(c, cb[c].target)

\* A handler that shows the error and goes on instead of returning.
AuthResumeSync_NoReturn(c) ==
    IF ~cb[c].ok
    THEN [ForwardAuth(c, cb[c].target) EXCEPT !.errors = @ + 1]
    ELSE ForwardAuth(c, cb[c].target)

\* A handler that looks the visible instance up again after the await.
AuthResumeSync_Retarget(c) ==
    IF ~cb[c].ok
    THEN [cb[c] EXCEPT !.pc = "done", !.errors = @ + 1]
    ELSE IF getVisibleInstance = NoInst
         THEN [cb[c] EXCEPT !.pc = "done"]
         ELSE ForwardAuth(c, getVisibleInstance)

\* handleUri, lines 167-175, after `await validateAuthState(state)`.
AuthResumeSync(c) ==
    IF ~cb[c].ok
    THEN [cb[c] EXCEPT !.pc = "done", !.errors = @ + 1]
    ELSE ForwardAuth(c, cb[c].target)

AuthResume(c) ==
    /\ cb[c].pc = "validated"
    /\ cb' = [cb EXCEPT ![c] = AuthResumeSync(c)]
    /\ UNCHANGED <<activated, live, entries, visible, nextInst, closing,
                   authNonce, nextNonce, cmd, nextCmd, nextCb, doc>>

\* handleUri resumes after `await handleAuthCallback(token, apiKey)` and ends.
AuthCallbackDone(c) ==
    /\ cb[c].pc = "auth"
    /\ cb' = [cb EXCEPT ![c].pc = "done"]
    /\ UNCHANGED <<activated, live, entries, visible, nextInst, closing,
                   authNonce, nextNonce, cmd, nextCmd, nextCb, doc>>

\* handleUri resumes after `await handleOpenRouterCallback(code)` and ends.
OpenRouterDone(c) ==
    /\ cb[c].pc = "openrouter"
    /\ cb' = [cb EXCEPT ![c].pc = "done"]
    /\ UNCHANGED <<activated, live, entries, visible, nextInst, closing,
                   authNonce, nextNonce, cmd, nextCmd, nextCb, doc>>

\* ------------------------------------------- virtual document provider
\* Texts are sequences of Unicode scalar values, byte strings are sequences
\* of 0..255, and a query string is a sequence of ASCII character codes.

\* No virtual document has been requested.
NoDoc == [text |-> <<>>, query |-> <<>>, content |-> <<>>, reads |-> 0]

\* h, U+00E9 (2 bytes), U+20AC (3 bytes), U+1F600 (4 bytes).
Alphabet == {104, 233, 8364, 128512}

\* "hello" and its query "aGVsbG8=".
Hello == <<104, 101, 108, 108, 111>>

HelloQuery == <<97, 71, 86, 115, 98, 71, 56, 61>>

Texts == UNION {[1..n -> Alphabet] : n \in 0..MaxTextLen} \cup {Hello}

\* The "=" padding character.
Pad == 61

\* U+FFFD, which the decoder puts in place of a malformed byte sequence.
Replacement == 65533

\* The UTF-8 bytes of one code point.
Utf8Bytes(cp) ==
    IF cp < 128 THEN <<cp>>
    ELSE IF cp < 2048 THEN <<192 + (cp \div 64), 128 + (cp % 64)>>
    ELSE IF cp < 65536
         THEN <<224 + (cp \div 4096), 128 + ((cp \div 64) % 64), 128 + (cp % 64)>>
    ELSE <<240 + (cp \div 262144), 128 + ((cp \div 4096) % 64),
           128 + ((cp \div 64) % 64), 128 + (cp % 64)>>

RECURSIVE Utf8Encode(_)
Utf8Encode(t) ==
    IF t = <<>> THEN <<>> ELSE Utf8Bytes(Head(t)) \o Utf8Encode(Tail(t))

\* The character of a 6-bit value in the standard base64 alphabet.
Base64Char(v) ==
    IF v < 26 THEN 65 + v
    ELSE IF v < 52 THEN 97 + (v - 26)
    ELSE IF v < 62 THEN 48 + (v - 52)
    ELSE IF v = 62 THEN 43
    ELSE 47

RECURSIVE Base64Encode(_)
Base64Encode(b) ==
    IF Len(b) = 0 THEN <<>>
    ELSE IF Len(b) = 1
         THEN <<Base64Char(b[1] \div 4), Base64Char((b[1] % 4) * 16), Pad, Pad>>
    ELSE IF Len(b) = 2
         THEN <<Base64Char(b[1] \div 4),
                Base64Char((b[1] % 4) * 16 + (b[2] \div 16)),
                Base64Char((b[2] % 16) * 4), Pad>>
    ELSE <<Base64Char(b[1] \div 4),
           Base64Char((b[1] % 4) * 16 + (b[2] \div 16)),
           Base64Char((b[2] % 16) * 4 + (b[3] \div 64)),
           Base64Char(b[3] % 64)>> \o Base64Encode(SubSeq(b, 4, Len(b)))

\* Buffer.from(s, "base64"): the 6-bit value of a character, -1 for a
\* character outside the alphabet; "-" and "_" are accepted for "+" and "/".
Base64Value(ch) ==
    IF ch \in 65..90 THEN ch - 65
    ELSE IF ch \in 97..122 THEN ch - 97 + 26
    ELSE IF ch \in 48..57 THEN ch - 48 + 52
    ELSE IF ch \in {43, 45} THEN 62
    ELSE IF ch \in {47, 95} THEN 63
    ELSE -1

\* Characters outside the alphabet are skipped, decoding stops at "=".
RECURSIVE Base64Sextets(_)
Base64Sextets(q) ==
    IF q = <<>> \/ Head(q) = Pad THEN <<>>
    ELSE IF Base64Value(Head(q)) < 0 THEN Base64Sextets(Tail(q))
    ELSE <<Base64Value(Head(q))>> \o Base64Sextets(Tail(q))

RECURSIVE SextetsToBytes(_)
SextetsToBytes(x) ==
    IF Len(x) < 2 THEN <<>>
    ELSE IF Len(x) = 2 THEN <<x[1] * 4 + (x[2] \div 16)>>
    ELSE IF Len(x) = 3
         THEN <<x[1] * 4 + (x[2] \div 16), (x[2] % 16) * 16 + (x[3] \div 4)>>
    ELSE <<x[1] * 4 + (x[2] \div 16), (x[2] % 16) * 16 + (x[3] \div 4),
           (x[3] % 4) * 64 + x[4]>> \o SextetsToBytes(SubSeq(x, 5, Len(x)))

Base64Decode(q) == SextetsToBytes(Base64Sextets(q))

IsCont(b, n) == n <= Len(b) /\ b[n] \in 128..191

\* buf.toString("utf-8"): a well-formed sequence gives its code point, any
\* other byte gives U+FFFD.
RECURSIVE Utf8Decode(_)
Utf8Decode(b) ==
    IF b = <<>> THEN <<>>
    ELSE LET cp2 == (b[1] - 192) * 64 + (b[2] - 128)
             cp3 == (b[1] - 224) * 4096 + (b[2] - 128) * 64 + (b[3] - 128)
             cp4 == (b[1] - 240) * 262144 + (b[2] - 128) * 4096
                        + (b[3] - 128) * 64 + (b[4] - 128)
         IN  IF b[1] < 128 THEN <<b[1]>> \o Utf8Decode(Tail(b))
             ELSE IF b[1] \in 194..223 /\ IsCont(b, 2)
                  THEN <<cp2>> \o Utf8Decode(SubSeq(b, 3, Len(b)))
             ELSE IF /\ b[1] \in 224..239 /\ IsCont(b, 2) /\ IsCont(b, 3)
                     /\ cp3 >= 2048 /\ cp3 \notin 55296..57343
                  THEN <<cp3>> \o Utf8Decode(SubSeq(b, 4, Len(b)))
             ELSE IF /\ b[1] \in 240..244
                     /\ IsCont(b, 2) /\ IsCont(b, 3) /\ IsCont(b, 4)
                     /\ cp4 \in 65536..1114111
                  THEN <<cp4>> \o Utf8Decode(SubSeq(b, 5, Len(b)))
             ELSE <<Replacement>> \o Utf8Decode(Tail(b))

\* A provider that reads the decoded bytes as latin1.
provideTextDocumentContent_Latin1(query) == Base64Decode(query)

\* Lines 127-129: Buffer.from(uri.query, "base64").toString("utf-8").
provideTextDocumentContent(query) == Utf8Decode(Base64Decode(query))

\* The editor asks for the virtual document of text t: its URI carries the
\* base64 of t's UTF-8 bytes as query. Asking again for the document read
\* last is a repeated request.
ProvideTextDocumentContent(t) ==
    LET query == Base64Encode(Utf8Encode(t))
        reads == IF doc.reads > 0 /\ doc.text = t THEN doc.reads + 1 ELSE 1
    IN  /\ activated
        /\ reads <= MaxReads
        /\ doc' = [text |-> t, query |-> query,
                   content |-> provideTextDocumentContent(query),
                   reads |-> reads]
        /\ UNCHANGED <<activated, live, entries, visible, nextInst, closing,
                       authNonce, nextNonce, cmd, nextCmd, cb, nextCb>>

\* ------------------------------------------------------- specification

Init ==
    /\ activated = FALSE
    /\ live = {}
    /\ entries = <<>>
    /\ visible = NoInst
    /\ nextInst = 1
    /\ closing = {}
    /\ authNonce = [i \in InstIds |-> NULL]
    /\ nextNonce = 1
    /\ cmd = [k \in CmdIds |-> IdleCmd]
    /\ nextCmd = 1
    /\ cb = [c \in CbIds |-> IdleCb]
    /\ nextCb = 1
    /\ doc = NoDoc

Next ==
    \/ Activate
    \/ OpenPanelCmd
    \/ TogglePanelCmd
    \/ \E k \in CmdIds : DelayDone(k)
    \/ \E k \in CmdIds : LockDone(k)
    \/ \E i \in InstIds : Dispose(i)
    \/ \E i \in InstIds : UserClose(i)
    \/ \E v \in InstIds \cup {NoInst} : VisibilityChange(v)
    \/ \E i \in InstIds : IssueAuthState(i)
    \/ \E req \in Requests : HandleUri(req)
    \/ \E c \in CbIds : ValidateAuthState(c)
    \/ \E c \in CbIds : AuthResume(c)
    \/ \E c \in CbIds : AuthCallbackDone(c)
    \/ \E c \in CbIds : OpenRouterDone(c)

Spec == Init /\ [][Next]_vars

\* The panel commands alone, up to MaxPanelCmds invocations, with the host's
\* close and visibility events.
PanelOpenCmd == nextCmd <= MaxPanelCmds /\ OpenPanel
PanelToggleCmd == nextCmd <= MaxPanelCmds /\ TogglePanel

NextPanels ==
    \/ Activate
    \/ PanelOpenCmd
    \/ PanelToggleCmd
    \/ \E k \in CmdIds : DelayDone(k)
    \/ \E k \in CmdIds : LockDone(k)
    \/ \E i \in InstIds : Dispose(i)
    \/ \E i \in InstIds : UserClose(i)
    \/ \E v \in InstIds \cup {NoInst} : VisibilityChange(v)

SpecPanels == Init /\ [][NextPanels]_vars

\* Activation with no command and no close event afterwards: the startup
\* openCompanionPanel() runs on, the host may change visibility and deliver
\* up to MaxStartupCb URI invocations. The host does activate the extension.
StartupHandleUri(req) == nextCb <= MaxStartupCb /\ HandleUri(req)

NextStartup ==
    \/ Activate
    \/ \E k \in CmdIds : DelayDone(k)
    \/ \E k \in CmdIds : LockDone(k)
    \/ \E v \in InstIds \cup {NoInst} : VisibilityChange(v)
    \/ \E i \in InstIds : IssueAuthState(i)
    \/ \E req \in Requests : StartupHandleUri(req)
    \/ \E c \in CbIds : ValidateAuthState(c)
    \/ \E c \in CbIds : AuthResume(c)
    \/ \E c \in CbIds : AuthCallbackDone(c)
    \/ \E c \in CbIds : OpenRouterDone(c)

SpecStartup == Init /\ [][NextStartup]_vars /\ WF_vars(Activate)

\* Virtual documents requested while the startup panel opens, is given an
\* auth state and is closed.
NextDecode ==
    \/ Activate
    \/ \E t \in Texts : ProvideTextDocumentContent(t)
    \/ \E k \in CmdIds : DelayDone(k)
    \/ \E k \in CmdIds : LockDone(k)
    \/ \E i \in InstIds : UserClose(i)
    \/ \E i \in InstIds : IssueAuthState(i)

SpecDecode == Init /\ [][NextDecode]_vars

\* Toggling from an empty registry: the startup panel is closed by the user,
\* and from then on the only commands are companion.togglePanel invocations,
\* the first of them issued once the registry is empty.
StartupClose(i) == nextCmd = 1 /\ UserClose(i)

ToggleFromEmpty ==
    /\ nextCmd <= MaxPanelCmds
    /\ nextCmd = 1 => (getTabInstances = {} /\ closing = {})
    /\ TogglePanel

NextToggle ==
    \/ Activate
    \/ \E i \in InstIds : StartupClose(i)
    \/ ToggleFromEmpty
    \/ \E k \in CmdIds : DelayDone(k)
    \/ \E k \in CmdIds : LockDone(k)
    \/ \E i \in InstIds : Dispose(i)

SpecToggle == Init /\ [][NextToggle]_vars

\* ------------------------------------------------------------- properties
\* The calls of `method` that handleUri made for callback c.
CallsOf(c, method) == SelectSeq(cb[c].calls, LAMBDA e : e.method = method)

\* Callback c is an /auth callback that reached a visible instance.
AuthRouted(c) ==
    cb[c].pc # "idle" /\ cb[c].req.path = "/auth" /\ cb[c].target # NoInst

\* The handleAuthCallback invocations made for callbacks that carried state s.
ForwardsOf(s) ==
    {<<c, n>> \in CbIds \X (1..2) :
        /\ cb[c].req.state = s
        /\ n <= Len(cb[c].calls)
        /\ cb[c].calls[n].method = "handleAuthCallback"}

\* C1: for every state value s, at most one callback carrying s passes
\* validateAuthState, and at most one handleAuthCallback invocation is made
\* for callbacks carrying s, whatever the interleaving of the callbacks.
C1_SingleUse ==
    \A s \in Nonces \cup {Forged} :
        /\ Cardinality({c \in CbIds : AuthRouted(c) /\ cb[c].req.state = s
                                       /\ cb[c].ok}) <= 1
        /\ Cardinality(ForwardsOf(s)) <= 1

\* Two callbacks carried the same issued state: the first was accepted and
\* forwarded, the second has been rejected.
C1_Witness ==
    /\ cb[1].req.state = 1 /\ cb[1].ok /\ Len(CallsOf(1, "handleAuthCallback")) = 1
    /\ cb[2].req = cb[1].req /\ cb[2].target = cb[1].target
    /\ cb[2].pc = "done" /\ ~cb[2].ok /\ cb[2].errors = 1

\* What handleUri called for callback c, in order: method, instance, arguments.
CallSigs(c) ==
    [n \in 1..Len(cb[c].calls) |->
        <<cb[c].calls[n].method, cb[c].calls[n].inst,
          cb[c].calls[n].a1, cb[c].calls[n].a2>>]

\* Callback c is delivered in this step.
Delivered(c) == cb[c].pc = "idle" /\ cb'[c].pc # "idle"

\* The state callback c presented is missing, was never issued, or was not
\* accepted by the validator (mismatched or already consumed).
BadState(c) ==
    ~Truthy(cb[c].req.state) \/ cb[c].req.state = Forged \/ ~cb[c].ok

\* C2: an /auth callback that reached a visible instance with a missing,
\* never issued, mismatched or already consumed state ends with the error shown
\* once and with validateAuthState as its only controller call, whatever its
\* token and apiKey.
C2_FailsClosed ==
    \A c \in CbIds :
        (AuthRouted(c) /\ cb[c].pc \in {"auth", "done"} /\ BadState(c))
            => /\ cb[c].pc = "done"
               /\ cb[c].errors = 1
               /\ CallSigs(c) = <<<<"validateAuthState", cb[c].target,
                                    cb[c].req.state, NULL>>>>

\* A never issued state and a missing state have each been rejected on a
\* visible instance, with complete credentials present.
C2_Witness ==
    /\ \A c \in CbIds : AuthRouted(c) /\ cb[c].pc = "done" /\ cb[c].errors = 1
                        /\ Truthy(cb[c].req.token) /\ Truthy(cb[c].req.apiKey)
    /\ cb[1].req.state = Forged
    /\ cb[2].req.state = NULL

\* C3: an /auth callback whose state was accepted and that carries a token t
\* and an apiKey k calls handleAuthCallback exactly once, with (t, k), on the
\* instance getVisibleInstance returned when the callback was delivered, calls
\* no other instance's controller and shows no error.
C3_DeliversOnce ==
    /\ [](\A c \in CbIds :
            (AuthRouted(c) /\ cb[c].pc \in {"auth", "done"} /\ cb[c].ok
             /\ Truthy(cb[c].req.token) /\ Truthy(cb[c].req.apiKey))
                => /\ cb[c].errors = 0
                   /\ CallSigs(c) =
                        << <<"validateAuthState", cb[c].target, cb[c].req.state, NULL>>,
                           <<"handleAuthCallback", cb[c].target,
                             cb[c].req.token, cb[c].req.apiKey>> >>)
    /\ [][\A c \in CbIds : Delivered(c) => cb'[c].target = getVisibleInstance]_vars

\* A callback was accepted and forwarded to the instance that was visible at
\* its delivery while another instance is the visible one now.
C3_Witness ==
    /\ cb[1].pc = "done" /\ cb[1].ok /\ cb[1].req = AuthRequest(1, <<1, 2>>)
    /\ Len(CallsOf(1, "handleAuthCallback")) = 1
    /\ visible \notin {NoInst, cb[1].target}

\* C4: as soon as handleAuthCallback has been invoked for a callback, no
\* controller accepts the state value that callback presented any more.
C4_ConsumedBeforeForward ==
    \A c \in CbIds :
        CallsOf(c, "handleAuthCallback") # <<>>
            => \A i \in InstIds : authNonce[i] # cb[c].req.state

\* Forwarding has started for a callback that presented the issued state 1 and
\* a second callback presenting the same state has been delivered.
C4_Witness ==
    /\ cb[1].pc = "auth" /\ cb[1].req.state = 1
    /\ cb[2].pc = "validate" /\ cb[2].req.state = 1
    /\ cb[2].target = cb[1].target

\* C7 (as an action): a callback delivered while no instance is visible ends
\* at once with no controller call and no error, and leaves the registry and
\* every recorded auth state as they were.
C7_NoTarget ==
    [][\A c \in CbIds :
         (cb[c].pc = "idle" /\ cb'[c].pc # "idle" /\ getVisibleInstance = NoInst)
            => /\ cb'[c].pc = "done"
               /\ cb'[c].calls = <<>>
               /\ cb'[c].errors = 0
               /\ UNCHANGED <<live, visible, closing, nextInst, authNonce>>]_vars

\* C8: an /openrouter callback with a non-empty code that reached a visible
\* instance calls handleOpenRouterCallback(code) exactly once on that
\* instance and nothing else: no validateAuthState call, no error, and no
\* recorded auth state is changed by the callback, whatever its state parameter.
C8_OpenRouterUnchecked ==
    /\ [](\A c \in CbIds :
            (cb[c].pc # "idle" /\ cb[c].req.path = "/openrouter"
             /\ cb[c].target # NoInst /\ Truthy(cb[c].req.code))
                => /\ cb[c].pc \in {"openrouter", "done"}
                   /\ cb[c].errors = 0
                   /\ ~cb[c].ok
                   /\ CallSigs(c) = <<<<"handleOpenRouterCallback", cb[c].target,
                                        cb[c].req.code, NULL>>>>)
    /\ [][\A c \in CbIds :
            (cb'[c] # cb[c] /\ cb'[c].req.path = "/openrouter")
                => authNonce' = authNonce]_vars

\* An /openrouter callback carrying the outstanding state of its target has
\* completed and that state is still recorded.
C8_Witness ==
    \E c \in CbIds :
        /\ cb[c].pc = "done" /\ cb[c].req = OpenRouterRequest(3, 1)
        /\ cb[c].target # NoInst
        /\ authNonce[cb[c].target] = 1

\* C9: a callback on a path other than /openrouter and /auth ends at once with
\* no controller call and no error and leaves the registry and every recorded
\* auth state as they were, with or without a visible instance.
C9_UnknownRoute ==
    /\ [](\A c \in CbIds :
            (cb[c].pc # "idle" /\ cb[c].req.path \notin {"/openrouter", "/auth"})
                => cb[c].pc = "done" /\ cb[c].calls = <<>> /\ cb[c].errors = 0)
    /\ [][\A c \in CbIds :
            (Delivered(c) /\ cb'[c].req.path \notin {"/openrouter", "/auth"})
                => UNCHANGED <<live, visible, closing, nextInst, authNonce>>]_vars

\* One unknown-route callback arrived with a visible instance holding an
\* outstanding state, another with no visible instance.
C9_Witness ==
    /\ cb[1].pc = "done" /\ cb[1].req.path = "/other" /\ cb[1].target # NoInst
    /\ cb[2].pc = "done" /\ cb[2].req.path = "/other" /\ cb[2].target = NoInst
    /\ authNonce[cb[1].target] = 1

\* A callback carrying an outstanding state arrived while its issuer's panel
\* was live but not visible.
C7_Witness ==
    \E c \in CbIds, i \in live :
        /\ cb[c].pc = "done" /\ cb[c].target = NoInst
        /\ cb[c].req = AuthRequest(1, <<1, 2>>)
        /\ authNonce[i] = 1

\* C5: at most one URI invocation is between its start and its completion.
C5_OneAtATime ==
    Cardinality({c \in CbIds : cb[c].pc \notin {"idle", "done"}}) <= 1

\* C6: handleAuthCallback is only ever invoked on an instance that is in the
\* registry at the moment of the call.
C6_ForwardOnlyToRegistered ==
    \A c \in CbIds :
        \A n \in 1..Len(cb[c].calls) :
            cb[c].calls[n].method = "handleAuthCallback" => cb[c].calls[n].registered

\* C10: a togglePanel invocation that found no live instance ends with exactly
\* one; one that found live instances ends with none and has opened nothing.
C10_ToggleByCardinality ==
    [][\A k \in CmdIds :
         (cmd[k].pc \notin {"done", "failed"} /\ cmd'[k].pc \in {"done", "failed"}
          /\ cmd'[k].kind = "togglePanel")
            => IF cmd'[k].startCard = 0
               THEN Cardinality(live') = 1
               ELSE Cardinality(live') = 0 /\ cmd'[k].inst = NoInst]_vars

\* C11: companion.openPanel closes every previously live instance before it
\* creates the new panel, and completes with exactly the new instance live.
C11_ReopenFresh ==
    [][\A k \in CmdIds :
         /\ (cmd[k].pc = "idle" /\ cmd'[k].kind = "openPanel")
                => live' = {cmd'[k].inst}
         /\ (cmd[k].kind = "openPanel" /\ cmd[k].pc = "lock" /\ cmd'[k].pc = "done")
                => live' = {cmd[k].inst}]_vars

\* C12: no disposal requested by closeAllTabInstances is still outstanding
\* once control is back with the caller, so no instance that closeAll was asked
\* to dispose is live next to a later one.
C12_CloseAllSettles == closing = {}

\* C13: the registry never holds two entries with the same identity, and its
\* entries are exactly the live instances.
C13_UniqueIdentities ==
    /\ \A m, n \in 1..Len(entries) : m # n => entries[m] # entries[n]
    /\ {entries[n] : n \in 1..Len(entries)} = live

\* Two instances are registered at once after an earlier one was removed and
\* every command has been used.
C13_Witness ==
    /\ Len(entries) = 2
    /\ entries[1] > 1
    /\ nextCmd > MaxPanelCmds

\* C14: the visible pointer is none or a live instance; a step that removes
\* the visible instance clears the pointer; and the target a callback selects
\* is none or an instance registered at that moment, on which its first call
\* is made.
C14_VisibleIsLive ==
    /\ [](getVisibleInstance = NoInst \/ getVisibleInstance \in live)
    /\ [](\A c \in CbIds : Len(cb[c].calls) >= 1 => cb[c].calls[1].registered)
    /\ [][/\ (visible \in live /\ visible \notin live') => visible' = NoInst
          /\ \A c \in CbIds :
                (cb[c].pc = "idle" /\ cb'[c].pc # "idle")
                    => cb'[c].target \in live \cup {NoInst}]_vars

\* The instance a first callback was routed to has been removed, which cleared
\* the pointer although another instance is live, and a second callback found
\* no target.
C14_Witness ==
    /\ cb[1].target = 1 /\ Len(cb[1].calls) >= 1
    /\ live = {2} /\ getVisibleInstance = NoInst
    /\ cb[2].pc = "done" /\ cb[2].target = NoInst

\* C15: with no command and no close event, the registry holds no instance
\* before activation and exactly one, the startup panel, from activation on,
\* and activation is eventually reached.
C15_DefaultOpen ==
    /\ [](IF activated
          THEN live = {cmd[StartupCmd].inst} /\ Len(entries) = 1
          ELSE live = {})
    /\ [](nextCmd = 1)
    /\ <>[](Cardinality(live) = 1)

\* The startup openCompanionPanel() has run to its end and its panel is the
\* one live instance.
C15_Witness ==
    /\ cmd[StartupCmd].pc = "done"
    /\ live = {1}
    /\ nextCmd = 1

\* C16: a rejected lock command does not make openCompanionPanel, and the
\* command awaiting it, fail: the operation still completes normally.
C16_LockBestEffort ==
    \A k \in CmdIds : cmd[k].lock = "rejected" => cmd[k].pc = "done"

\* C17: a lock step that runs while no instance is visible locks nothing and
\* surfaces no error.
C17_LockWithoutTarget ==
    [][\A k \in CmdIds :
         (cmd[k].pc = "lock" /\ cmd'[k].pc # "lock" /\ getVisibleInstance = NoInst)
            => cmd'[k].lock = "none" /\ cmd'[k].pc = "done"]_vars

\* C19: an /auth callback whose state was accepted but whose token or apiKey
\* is missing or empty has consumed the state, ends with validateAuthState as
\* its only call and no error, and every other callback carrying that state
\* is rejected.
C19_IncompleteAuth ==
    \A c \in CbIds :
        (AuthRouted(c) /\ cb[c].ok
         /\ ~(Truthy(cb[c].req.token) /\ Truthy(cb[c].req.apiKey)))
            => /\ \A i \in InstIds : authNonce[i] # cb[c].req.state
               /\ \A d \in CbIds \ {c} :
                    (AuthRouted(d) /\ cb[d].req.state = cb[c].req.state) => ~cb[d].ok
               /\ cb[c].pc # "validated"
                    => /\ cb[c].pc = "done"
                       /\ cb[c].errors = 0
                       /\ CallSigs(c) = <<<<"validateAuthState", cb[c].target,
                                            cb[c].req.state, NULL>>>>

\* A callback without a token consumed the issued state; a later complete
\* callback carrying the same state to the same instance was rejected.
C19_Witness ==
    /\ cb[1].req = AuthRequest(1, <<NULL, 2>>) /\ cb[1].ok /\ cb[1].pc = "done"
    /\ cb[2].req = AuthRequest(1, <<1, 2>>) /\ cb[2].target = cb[1].target
    /\ cb[2].pc = "done" /\ ~cb[2].ok /\ cb[2].errors = 1

\* C20: toggles issued from an empty registry never leave more than one live
\* instance, and once every issued toggle has completed and every requested
\* disposal has settled, the cardinality is the parity of their number.
C20_ToggleParity ==
    /\ Cardinality(live) <= 1
    /\ (/\ nextCmd > 1
        /\ \A k \in 1..(nextCmd - 1) : cmd[k].pc \in {"done", "failed"}
        /\ closing = {})
          => Cardinality(live) = (nextCmd - 1) % 2

\* C18: a request whose query is the base64 of the UTF-8 bytes of t yields
\* t, on the first and on every repeated request (aGVsbG8= yields hello),
\* and a request changes neither the registry nor any auth state.
C18_DecodeRoundTrip ==
    /\ [](doc.reads > 0 => doc.content = doc.text)
    /\ [](doc.query = HelloQuery <=> doc.text = Hello)
    /\ [][doc' # doc => UNCHANGED <<live, entries, visible, closing,
                                    authNonce, nextNonce>>]_vars

\* A text with a 2-byte and a 4-byte character, whose encoding is padded, has
\* been requested twice while a panel holding an auth state is registered.
C18_Witness ==
    /\ doc.reads = MaxReads
    /\ doc.text = <<104, 233, 128512>>
    /\ doc.content = <<104, 233, 128512>>
    /\ doc.query[Len(doc.query)] = Pad
    /\ \E i \in live : authNonce[i] # NULL
====
